---- MODULE Spec2Model ----
(***************************************************************************)
(* notify-debouncer-mini (src/notify-debouncer-mini/src/lib.rs).           *)
(*                                                                         *)
(* The debouncer is three concurrent contexts around one mutex:            *)
(*   - the caller, running new_debouncer_opt and later stop(),             *)
(*     stop_nonblocking() or the implicit Drop of the Debouncer;           *)
(*   - the "notify-rs debouncer loop" thread (the ticker);                 *)
(*   - the watcher backend, calling the closure given to T::new.           *)
(*                                                                         *)
(* Time.  Durations are natural numbers of one abstract clock unit.  An    *)
(* Instant is stored by its age, the time elapsed since it was taken, so   *)
(* that Instant::elapsed() is the stored age plus whatever the clock has   *)
(* advanced since the running operation began.  Ages saturate at the       *)
(* timeout: the code only ever asks whether an age has reached it, so      *)
(* saturation loses nothing and the clock can run for ever.                *)
(***************************************************************************)
EXTENDS Integers, Sequences, FiniteSets, TLC

\* ---------------------------------------------------------------- bounds
MaxPaths == 2
MaxErrs == 2
MaxTimeout == 2
MaxSkew == 1
\* The longest e.paths of a raw event.
MaxEventPaths == 2
\* History counters stop counting here.
CountCap == 3

\* let tick_div = 4;
tick_div == 4

Paths == 1..MaxPaths
ErrIds == 1..MaxErrs
Durations == 0..MaxTimeout

\* Option<T>: None is the empty set, Some(v) the singleton.
None == {}
Some(v) == {v}
Unwrap(o) == CHOOSE v \in o : TRUE

Min(a, b) == IF a <= b THEN a ELSE b
Max(a, b) == IF a >= b THEN a ELSE b

VARIABLES
    ctor,          \* where new_debouncer_opt is, or how it returned
    tick,          \* the local `tick` the ticker closure captured
    timeout,       \* DebounceDataInner.timeout
    d,             \* DebounceDataInner.d : path -> EventData (ages)
    e,             \* DebounceDataInner.e : queued errors, oldest first
    lock,          \* owner of the Mutex: "free", "ticker" or "watcher"
    stop,          \* the AtomicBool
    tpc,           \* ticker thread: position in its loop
    sleepLeft,     \* what remains of std::thread::sleep(tick)
    send_data,     \* ticker local send_data : Vec<DebouncedEvent>
    errors,        \* ticker local errors : Vec<Error>
    watcher,       \* the backend T: "none", "alive" or "dropped"
    handle,        \* the Debouncer guard and the call made on it
    nextErr,       \* number of errors the backend has reported so far
    \* ---- history (not program state)
    nev,           \* per path: 1 once a raw event for it is recorded, 0 again
                   \* once its entry is removed
    arrived,       \* errors recorded since the ticker last took the lock
    delivered,     \* errors handed to the consumer so far
    calls,         \* consumer calls started in the current loop iteration
    late,          \* consumer calls started after the stop call returned
    named          \* the paths of the raw event the step just taken gave the
                   \* callback; empty after any other step

vars == <<ctor, tick, timeout, d, e, lock, stop, tpc,
          sleepLeft, send_data, errors, watcher, handle, nextErr,
          nev, arrived, delivered, calls, late, named>>

\* ------------------------------------------------------------ data types
\* DebouncedEventKind
KindAny == "Any"
KindAnyContinuous == "AnyContinuous"

\* DebouncedEvent::new(path, kind)
DebouncedEvent(path, kind) == [path |-> path, kind |-> kind]

\* EventData::new_any() at clock offset o of the running operation: both
\* instants are the same reading of the clock.
new_any(o) == [insert |-> 0 - o, update |-> 0 - o]

\* Instant::elapsed() of an instant of age a, read at clock offset o.
elapsed(a, o) == a + o

\* Ages saturate here; see the module header.
AgeCap == timeout

\* An EventData after the clock has advanced by n.
AgedData(v, n) ==
    [insert |-> Min(v.insert + n, AgeCap), update |-> Min(v.update + n, AgeCap)]

\* The whole map after the clock has advanced by n.
Aged(dd, n) == [p \in DOMAIN dd |-> AgedData(dd[p], n)]

\* Sequences without repetition over S: the orders a HashMap can be drained
\* in.
Perms(S) ==
    {s \in [1..Cardinality(S) -> S] : \A i, j \in DOMAIN s : s[i] = s[j] => i = j}

\* e.paths of a raw event: a Vec<PathBuf>, any paths in any order, a path
\* any number of times.
PathLists == UNION {[1..n -> Paths] : n \in 0..MaxEventPaths}

\* Clock readings of one operation: n readings, each an offset from the
\* operation's start, never decreasing (Instant::now() is monotonic).
Readings(n) ==
    {f \in [1..n -> 0..MaxSkew] : \A i, j \in 1..n : i <= j => f[i] <= f[j]}

LastReading(off) == IF Len(off) = 0 THEN 0 ELSE off[Len(off)]

SeqToSet(s) == {s[i] : i \in DOMAIN s}

\* ---------------------------------------------------- DebounceDataInner
\* classify with the two kinds exchanged.
classify_kinds_swapped(v, to, o1, o2) ==
    IF elapsed(v.update, o1) >= to THEN "continuous"
    ELSE IF elapsed(v.insert, o2) >= to THEN "expired"
    ELSE "kept"

\* classify with the two tests in the other order.
classify_insert_first(v, to, o1, o2) ==
    IF elapsed(v.insert, o1) >= to THEN "continuous"
    ELSE IF elapsed(v.update, o2) >= to THEN "expired"
    ELSE "kept"

\* One pass of the loop `for (k, v) in self.d.drain()`: the branch taken for
\* entry v when update.elapsed() is read at offset o1 and insert.elapsed()
\* at offset o2.
classify(v, to, o1, o2) ==
    IF elapsed(v.update, o1) >= to THEN "expired"
    ELSE IF elapsed(v.insert, o2) >= to THEN "continuous"
    ELSE "kept"

RECURSIVE drain(_, _, _, _, _, _)
drain(dd, to, ord, off, i, acc) ==
    IF i > Len(ord) THEN acc
    ELSE LET k == ord[i]
             v == dd[k]
             c == classify(v, to, off[2 * i - 1], off[2 * i])
             next ==
                 IF c = "expired"
                 THEN [events_expired |-> Append(acc.events_expired, DebouncedEvent(k, KindAny)),
                       data_back |-> acc.data_back]
                 ELSE IF c = "continuous"
                 THEN [events_expired |->
                           Append(acc.events_expired, DebouncedEvent(k, KindAnyContinuous)),
                       data_back |-> acc.data_back @@ (k :> v)]
                 ELSE [events_expired |-> acc.events_expired,
                       data_back |-> acc.data_back @@ (k :> v)]
         IN drain(dd, to, ord, off, i + 1, next)

\* debounced_events() without its `self.d = data_back`.
debounced_events_forget(dd, to, ord, off) ==
    [events_expired |->
         drain(dd, to, ord, off, 1,
               [events_expired |-> <<>>, data_back |-> <<>>]).events_expired,
     data_back |-> <<>>]

\* debounced_events() whose loop misses the first entry the map yields.
debounced_events_skip_first(dd, to, ord, off) ==
    drain(dd, to, ord, off, 2, [events_expired |-> <<>>, data_back |-> <<>>])

\* debounced_events(): ord is the order the HashMap drains in, off the clock
\* readings (two per entry).  Returns the Vec and the map left in self.d.
debounced_events(dd, to, ord, off) ==
    drain(dd, to, ord, off, 1, [events_expired |-> <<>>, data_back |-> <<>>])

\* errors() emptying the queue and returning nothing.
inner_errors_lost(ee) == [returned |-> <<>>, e |-> <<>>]

\* errors() returning a copy and leaving the queue as it is.
inner_errors_copy(ee) == [returned |-> ee, e |-> ee]

\* errors(): swap the queue with an empty Vec and return it.
inner_errors(ee) == [returned |-> ee, e |-> <<>>]

\* add_error forgetting the errors already queued.
add_error_replace(ee, err) == <<err>>

\* add_error putting the error at the head of the queue.
add_error_front(ee, err) == <<err>> \o ee

\* add_error(e)
add_error(ee, err) == Append(ee, err)

\* add_event giving a path that has an entry a new EventData all the same.
add_event_reset_insert(dd, paths, off) ==
    [p \in DOMAIN dd \cup SeqToSet(paths) |->
        IF p \in SeqToSet(paths)
        THEN new_any(off[CHOOSE i \in DOMAIN paths : paths[i] = p])
        ELSE dd[p]]

\* add_event stopping after the first path of the event.
add_event_first_path(dd, paths, off) ==
    IF Len(paths) = 0 THEN dd
    ELSE IF paths[1] \in DOMAIN dd
         THEN [dd EXCEPT ![paths[1]].update = 0 - off[1]]
         ELSE dd @@ (paths[1] :> new_any(off[1]))

RECURSIVE add_paths(_, _, _, _)
add_paths(dd, paths, off, i) ==
    IF i > Len(paths) THEN dd
    ELSE LET path == paths[i]
             next ==
                 IF path \in DOMAIN dd
                 THEN [dd EXCEPT ![path].update = 0 - off[i]]
                 ELSE dd @@ (path :> new_any(off[i]))
         IN add_paths(next, paths, off, i + 1)

\* add_event(e): off holds one clock reading per path of e.paths.
add_event(dd, paths, off) == add_paths(dd, paths, off, 1)

\* ------------------------------------------------------------------ Init
\* new_debouncer_opt is about to be called; nothing exists yet.
Init ==
    /\ ctor = "start"
    /\ tick = 0
    /\ timeout = 0
    /\ d = <<>>
    /\ e = <<>>
    /\ lock = "free"
    /\ stop = FALSE
    /\ tpc = "none"
    /\ sleepLeft = 0
    /\ send_data = <<>>
    /\ errors = <<>>
    /\ watcher = "none"
    /\ handle = "none"
    /\ nextErr = 0
    /\ nev = [p \in Paths |-> 0]
    /\ arrived = <<>>
    /\ delivered = [i \in ErrIds |-> 0]
    /\ calls = <<>>
    /\ late = 0
    /\ named = {}

\* ----------------------------------------------------- new_debouncer_opt
\* Duration::checked_div(rhs): None only for rhs = 0.
checked_div(dur, rhs) == IF rhs = 0 THEN None ELSE Some(dur \div rhs)

\* select_tick rejecting a tick_rate equal to the timeout as well.
select_tick_strict(to, rate) ==
    IF rate # None
    THEN IF Unwrap(rate) >= to THEN None ELSE Some(Unwrap(rate))
    ELSE checked_div(to, tick_div)

\* lines 219-236: the tick, or None where the function returns Err.
select_tick(to, rate) ==
    IF rate # None
    THEN IF Unwrap(rate) > to THEN None ELSE Some(Unwrap(rate))
    ELSE checked_div(to, tick_div)

dataVars == <<d, e, nev, arrived>>
tickerVars == <<tpc, sleepLeft, send_data, errors, calls, delivered, late>>
watcherVars == <<nextErr>>

\* The arguments a caller can pass: any timeout, tick_rate None or Some of
\* any duration up to one more than the largest timeout.
TickRates == {None} \cup {Some(v) : v \in 0..(MaxTimeout + 1)}

\* lines 215-241 of the call new_debouncer_opt(to, rate, event_handler):
\* validate, derive the tick, store the timeout.
ConfigWith(to, rate) ==
    /\ ctor = "start"
    /\ LET t == select_tick(to, rate)
       IN IF t = None
          THEN /\ ctor' = "err_config"
               /\ UNCHANGED <<tick, timeout>>
          ELSE /\ ctor' = "spawn"
               /\ tick' = Unwrap(t)
               /\ timeout' = to
    /\ UNCHANGED <<dataVars, tickerVars, watcherVars, lock, stop, watcher, handle>>

NewConfig == \E to \in Durations : \E rate \in TickRates : ConfigWith(to, rate)
    /\ named' = {}

\* lines 243-265: Builder::spawn, which starts the loop or fails (`?`).
NewSpawn ==
    /\ ctor = "spawn"
    /\ \/ /\ ctor' = "watcher"
          /\ tpc' = "check"
       \/ /\ ctor' = "err_spawn"
          /\ tpc' = tpc
    /\ UNCHANGED <<tick, timeout, dataVars, watcherVars, lock, stop,
                   watcher, handle, sleepLeft, send_data, errors, calls,
                   delivered, late>>
    /\ named' = {}

\* lines 267-283: T::new(closure), which fails (`?`) or gives the watcher
\* the guard is built around.
NewWatcher ==
    /\ ctor = "watcher"
    /\ \/ /\ ctor' = "ok"
          /\ watcher' = "alive"
          /\ handle' = "alive"
       \/ /\ ctor' = "err_watcher"
          /\ UNCHANGED <<watcher, handle>>
    /\ UNCHANGED <<tick, timeout, dataVars, tickerVars, watcherVars,
                   lock, stop>>
    /\ named' = {}

\* ------------------------------------------------------------- Debouncer
\* A set_stop that stores nothing.
set_stop_noop == stop' = stop

\* set_stop()
set_stop == stop' = TRUE

\* stop(): set_stop(), then wait in JoinHandle::join.
StopBegin ==
    /\ handle = "alive"
    /\ set_stop
    /\ handle' = "joining"
    /\ UNCHANGED <<ctor, tick, timeout, dataVars, tickerVars,
                   watcherVars, lock, watcher>>
    /\ named' = {}

\* A join that does not wait.
joined_at_once == TRUE

\* join() returns once the thread has ended.
joined == tpc = "done"

\* stop() returns: join is over, self goes out of scope (Drop: set_stop,
\* then the watcher field is dropped).
StopReturn ==
    /\ handle = "joining"
    /\ joined
    /\ set_stop
    /\ handle' = "stopped"
    /\ watcher' = "dropped"
    /\ UNCHANGED <<ctor, tick, timeout, dataVars, tickerVars,
                   watcherVars, lock>>
    /\ named' = {}

\* stop_nonblocking(): set_stop(), then self goes out of scope.
StopNonblocking ==
    /\ handle = "alive"
    /\ set_stop
    /\ handle' = "stopped_nonblocking"
    /\ watcher' = "dropped"
    /\ UNCHANGED <<ctor, tick, timeout, dataVars, tickerVars,
                   watcherVars, lock>>
    /\ named' = {}

\* Drop for Debouncer, with no stop call before it.
Drop ==
    /\ handle = "alive"
    /\ set_stop
    /\ handle' = "dropped"
    /\ watcher' = "dropped"
    /\ UNCHANGED <<ctor, tick, timeout, dataVars, tickerVars,
                   watcherVars, lock>>
    /\ named' = {}

\* The call on the guard has returned.
Returned == handle \in {"stopped", "stopped_nonblocking", "dropped"}

\* ---------------------------------------------------------------- ticker
\* The dispatch with its length test left out.
nonempty_unchecked(v) == TRUE

\* `if send_data.len() > 0` and `if errors.len() > 0`
nonempty(v) == Len(v) > 0

Count(n) == Min(n + 1, CountCap)

\* A load that never sees the flag.
load_stop_stale == FALSE

\* stop_c.load(Ordering::Acquire)
load_stop == stop

\* lines 248-251: load the stop flag, leave the loop or start the next
\* iteration with its sleep.
TickerCheck ==
    /\ tpc = "check"
    /\ IF load_stop
       THEN /\ tpc' = "done"
            /\ UNCHANGED <<sleepLeft, calls>>
       ELSE /\ tpc' = "sleep"
            /\ sleepLeft' = tick
            /\ calls' = <<>>
    /\ UNCHANGED <<ctor, tick, timeout, dataVars, watcherVars, lock,
                   stop, watcher, handle, send_data, errors, delivered, late>>
    /\ named' = {}

\* lines 251-255: the sleep is over and the mutex is taken.
TickerLock ==
    /\ tpc = "sleep"
    /\ sleepLeft = 0
    /\ lock = "free"
    /\ lock' = "ticker"
    /\ tpc' = "locked"
    /\ UNCHANGED <<ctor, tick, timeout, dataVars, watcherVars, stop,
                   watcher, handle, sleepLeft, send_data, errors, calls,
                   delivered, late>>
    /\ named' = {}

\* lines 256-258 with the HashMap draining in order ord and the clock read at
\* the offsets off: debounced_events(), errors(), and the guard is dropped.
EvalWith(ord, off) ==
    LET r == debounced_events(d, timeout, ord, off)
        n == LastReading(off)
    IN /\ send_data' = r.events_expired
       /\ d' = Aged(r.data_back, n)
       /\ nev' = [p \in Paths |-> IF p \in DOMAIN r.data_back THEN nev[p] ELSE 0]
       /\ errors' = inner_errors(e).returned
       /\ e' = inner_errors(e).e
       /\ arrived' = <<>>
       /\ lock' = "free"
       /\ tpc' = "sendOk"
       /\ named' = {}
       /\ UNCHANGED <<ctor, tick, timeout, watcherVars, stop, watcher,
                      handle, sleepLeft, calls, delivered, late>>

TickerEval ==
    /\ tpc = "locked"
    /\ \E ord \in Perms(DOMAIN d) : \E off \in Readings(2 * Len(ord)) :
          EvalWith(ord, off)

\* lines 259-260: handle_event(Ok(send_data)) is entered, or skipped.
TickerSendOk ==
    /\ tpc = "sendOk"
    /\ IF nonempty(send_data)
       THEN /\ tpc' = "inOk"
            /\ calls' = Append(calls, "Ok")
            /\ late' = IF Returned THEN Count(late) ELSE late
       ELSE /\ tpc' = "sendErr"
            /\ UNCHANGED <<calls, late>>
    /\ UNCHANGED <<ctor, tick, timeout, dataVars, watcherVars, lock,
                   stop, watcher, handle, sleepLeft, send_data, errors, delivered>>
    /\ named' = {}

\* line 260: the consumer returns from handle_event(Ok(..)), which took the
\* Vec with it.
HandlerOkReturn ==
    /\ tpc = "inOk"
    /\ tpc' = "sendErr"
    /\ send_data' = <<>>
    /\ UNCHANGED <<ctor, tick, timeout, dataVars, watcherVars, lock,
                   stop, watcher, handle, sleepLeft, errors, calls, delivered,
                   late>>
    /\ named' = {}

\* lines 262-263: handle_event(Err(errors)) is entered, or skipped.
TickerSendErr ==
    /\ tpc = "sendErr"
    /\ IF nonempty(errors)
       THEN /\ tpc' = "inErr"
            /\ calls' = Append(calls, "Err")
            /\ late' = IF Returned THEN Count(late) ELSE late
            /\ delivered' = [i \in ErrIds |->
                                IF i \in SeqToSet(errors) THEN Count(delivered[i])
                                ELSE delivered[i]]
       ELSE /\ tpc' = "check"
            /\ UNCHANGED <<calls, late, delivered>>
    /\ UNCHANGED <<ctor, tick, timeout, dataVars, watcherVars, lock,
                   stop, watcher, handle, sleepLeft, send_data, errors>>
    /\ named' = {}

\* line 263: the consumer returns from handle_event(Err(..)).
HandlerErrReturn ==
    /\ tpc = "inErr"
    /\ tpc' = "check"
    /\ errors' = <<>>
    /\ UNCHANGED <<ctor, tick, timeout, dataVars, watcherVars, lock,
                   stop, watcher, handle, sleepLeft, send_data, calls,
                   delivered, late>>
    /\ named' = {}

\* ------------------------------------------------------ watcher callback
\* The closure given to T::new runs on the backend's thread.  It takes the
\* mutex first and holds it to its end, so it runs when the mutex is free and
\* nothing else touches the data before it has finished.
\* A callback that does not wait for the mutex.
callable_unlocked == watcher = "alive"

callable == watcher = "alive" /\ lock = "free"

\* lines 268-271, the closure called with Ok(Event{paths}), the clock read at
\* the offsets off (one reading per path).
EventWith(paths, off) ==
    /\ callable
    /\ d' = Aged(add_event(d, paths, off), LastReading(off))
    /\ sleepLeft' = Max(sleepLeft - LastReading(off), 0)
    /\ nev' = [p \in Paths |->
                  IF p \in SeqToSet(paths)
                  THEN 1
                  ELSE nev[p]]
    /\ named' = SeqToSet(paths)
    /\ UNCHANGED <<ctor, tick, timeout, e, arrived, nextErr, lock,
                   stop, watcher, handle, tpc, send_data, errors, calls,
                   delivered, late>>

WatcherEvent ==
    \E paths \in PathLists : \E off \in Readings(Len(paths)) : EventWith(paths, off)

\* lines 268-273, the closure called with Err(error); every error the backend
\* reports is a new one.
WatcherError ==
    /\ callable
    /\ nextErr < MaxErrs
    /\ nextErr' = nextErr + 1
    /\ e' = add_error(e, nextErr + 1)
    /\ arrived' = Append(arrived, nextErr + 1)
    /\ UNCHANGED <<ctor, tick, timeout, d, nev, lock, stop, watcher,
                   handle, tickerVars>>
    /\ named' = {}

\* ----------------------------------------------------------------- clock
\* One unit of time passes: every instant is one unit older, a sleeping
\* thread has one unit less to sleep.
AdvanceTime ==
    /\ tpc # "none"
    /\ d' = Aged(d, 1)
    /\ sleepLeft' = Max(sleepLeft - 1, 0)
    /\ UNCHANGED <<ctor, tick, timeout, e, nev, arrived, watcherVars,
                   lock, stop, watcher, handle, tpc, send_data, errors, calls,
                   delivered, late>>
    /\ named' = {}

\* --------------------------------------------------------- specification
Next ==
    \/ NewConfig
    \/ NewSpawn
    \/ NewWatcher
    \/ StopBegin
    \/ StopReturn
    \/ StopNonblocking
    \/ Drop
    \/ TickerCheck
    \/ TickerLock
    \/ TickerEval
    \/ TickerSendOk
    \/ HandlerOkReturn
    \/ TickerSendErr
    \/ HandlerErrReturn
    \/ WatcherEvent
    \/ WatcherError
    \/ AdvanceTime

Spec == Init /\ [][Next]_vars

\* The scheduling the liveness properties rest on: the ticker thread is
\* given the processor whenever it can take a step (the mutex is only ever
\* held for the length of one callback), the consumer's handle_event
\* returns, and the clock advances.  The caller and the backend owe nothing.
Fairness ==
    /\ WF_vars(TickerCheck)
    /\ WF_vars(TickerLock)
    /\ WF_vars(TickerEval)
    /\ WF_vars(TickerSendOk)
    /\ WF_vars(HandlerOkReturn)
    /\ WF_vars(TickerSendErr)
    /\ WF_vars(HandlerErrReturn)
    /\ WF_vars(AdvanceTime)

FairSpec == Spec /\ Fairness

\* ================================================================ claims
\* The paths of a batch, and whether a batch holds an event.
Holds(batch, p, kind) == \E i \in DOMAIN batch : batch[i] = DebouncedEvent(p, kind)

Occurrences(batch, p) == Cardinality({i \in DOMAIN batch : batch[i].path = p})

\* ---------------------------------------------------------------- C3
\* C3: stop() sets the stop flag and returns only after the ticker thread
\* has left its loop; once stop() has returned no handle_event call is
\* running and none starts.
C3_StopWaitsForThread ==
    /\ handle \in {"joining", "stopped"} => stop
    /\ handle = "stopped" => tpc = "done" /\ late = 0

\* stop() has returned after the consumer had been given an error batch.
C3_Witness == handle = "stopped" /\ delivered[1] = 1

\* ---------------------------------------------------------------- C4
\* C4 as stated: at most one handle_event call begins after
\* stop_nonblocking() has returned.
C4_Original == handle = "stopped_nonblocking" => late <= 1

\* C4 amended: stop_nonblocking() sets the stop flag and returns without
\* waiting; at most two handle_event calls begin after it has returned, and
\* when there are two they are the Ok call and the Err call of one loop
\* iteration, the one whose stop check came before the flag was set.
C4_AtMostOneIteration ==
    handle = "stopped_nonblocking" =>
        /\ stop
        /\ late <= 2
        /\ late = 2 => calls = <<"Ok", "Err">>

\* stop_nonblocking() has returned and two consumer calls began after it.
C4_Witness == handle = "stopped_nonblocking" /\ late = 2

\* ---------------------------------------------------------------- C5
ConfigStep == ctor = "start" /\ ctor' # "start"

\* C5: a supplied tick_rate greater than the timeout makes construction
\* return the configuration error, and then no thread is spawned and no
\* watcher is constructed; a supplied tick_rate up to and including the
\* timeout is accepted and becomes the tick unchanged.
C5_TickRateValidation ==
    /\ [](ctor = "err_config" => tpc = "none" /\ watcher = "none" /\ handle = "none")
    /\ [][ConfigStep =>
            \A to \in Durations : \A v \in 0..(MaxTimeout + 1) :
            ConfigWith(to, Some(v)) =>
                IF v > to
                THEN ctor' = "err_config" /\ tpc' = "none" /\ watcher' = "none"
                ELSE ctor' = "spawn" /\ tick' = v /\ timeout' = to]_vars

\* Construction has returned the configuration error.
C5_Witness == ctor = "err_config" /\ tpc = "none" /\ watcher = "none"

\* ---------------------------------------------------------------- C9
\* C9: the consumer is never called with an empty batch; in one loop
\* iteration it is called at most once with Ok(events) and at most once with
\* Err(errors), the Ok call first and over before the Err call starts.
C9_CallsPerTick ==
    /\ tpc = "inOk" => Len(send_data) > 0
    /\ tpc = "inErr" => Len(errors) > 0 /\ send_data = <<>>
    /\ calls \in {<<>>, <<"Ok">>, <<"Err">>, <<"Ok", "Err">>}
    /\ tpc = "inOk" => calls = <<"Ok">>
    /\ tpc = "inErr" => calls \in {<<"Err">>, <<"Ok", "Err">>}
    /\ \A i \in DOMAIN send_data :
          send_data[i].kind \in {KindAny, KindAnyContinuous} /\ send_data[i].path \in Paths
    /\ \A i \in DOMAIN errors : errors[i] \in ErrIds

\* The Err call of an iteration that also made an Ok call is running.
C9_Witness == tpc = "inErr" /\ calls = <<"Ok", "Err">>

\* --------------------------------------------------------------- C10
\* C10 as stated: with tick_rate None the tick is timeout / 4 and is less
\* than the timeout, and construction returns the configuration error when
\* the division cannot be represented.
C10_Original ==
    [][ConfigStep =>
          \A to \in Durations :
          ConfigWith(to, None) =>
              IF checked_div(to, tick_div) = None
              THEN ctor' = "err_config"
              ELSE ctor' = "spawn" /\ tick' = to \div tick_div /\ tick' < to]_vars

\* ---------------------------------------------------------------- C1
\* The ticker's critical section ends, and the dispatch of a batch begins.
EvalStep == tpc = "locked" /\ tpc' = "sendOk"

\* C1 as stated, for a path whose entry is as one raw event at t0 leaves it
\* (insert = update = t0; the age of update is T - t0 at a tick at T): the
\* only event the consumer gets for it is one Any, from a tick at
\* T >= t0 + timeout, and never an AnyContinuous.  (The upper bound
\* T < t0 + timeout + tick is not stated here: ages saturate at AgeCap.)
C1_Original ==
    [][EvalStep =>
          \A p \in DOMAIN d :
              d[p].insert = d[p].update =>
                  /\ ~Holds(send_data', p, KindAnyContinuous)
                  /\ Occurrences(send_data', p) <= 1
                  /\ Holds(send_data', p, KindAny) <=> d[p].update >= timeout
                  /\ Holds(send_data', p, KindAny) => p \notin DOMAIN d']_vars

\* ---------------------------------------------------------------- C2
\* C2: a tick at T evaluates path p, first seen at t0 and last changed at u.
\* (a) If T >= t0 + timeout and raw events keep arriving less than timeout
\*     apart, the batch holds AnyContinuous{p} and p stays in the cache.  The
\*     next raw event is recorded after the tick has released the mutex, at
\*     R >= T, so "less than timeout apart" gives R - u < timeout, which is
\*     the hypothesis used here.
\* (b) If T - u >= timeout the batch holds Any{p} and p leaves the cache.
\* The batch is then handed to the consumer as it is.
C2_ContinuousThenAny ==
    [][/\ EvalStep =>
             \A ord \in Perms(DOMAIN d) : \A off \in Readings(2 * Len(ord)) :
             EvalWith(ord, off) =>
                 \A p \in DOMAIN d :
                     /\ (d[p].insert >= timeout
                            /\ d[p].update + LastReading(off) < timeout)
                        => /\ Holds(send_data', p, KindAnyContinuous)
                           /\ ~Holds(send_data', p, KindAny)
                           /\ p \in DOMAIN d'
                     /\ d[p].update >= timeout
                        => /\ Holds(send_data', p, KindAny)
                           /\ ~Holds(send_data', p, KindAnyContinuous)
                           /\ p \notin DOMAIN d'
       /\ (tpc = "sendOk" /\ tpc' # "sendOk" /\ Len(send_data) > 0)
              => tpc' = "inOk" /\ send_data' = send_data]_vars

\* The consumer is being given AnyContinuous for a path that has had several
\* raw events, is still in the cache and changed less than timeout ago.
C2_Witness ==
    /\ tpc = "inOk"
    /\ Holds(send_data, 1, KindAnyContinuous)
    /\ 1 \in DOMAIN d
    /\ d[1].insert >= timeout
    /\ d[1].update > 0
    /\ d[1].update < timeout

\* ---------------------------------------------------------------- C6
\* C6: the errors recorded between two consecutive lock acquisitions of the
\* ticker (an error counts from the moment add_error has run under the
\* mutex) are exactly the batch the later tick takes, in arrival order; the
\* queue is empty when that tick releases the mutex; a batch that is not
\* empty is given to the consumer in one Err call, unchanged; no error is in
\* two batches.
C6_ErrorBatches ==
    /\ [](\A i \in ErrIds : delivered[i] <= 1)
    /\ [](tpc = "inErr" => Len(errors) > 0)
    /\ [][/\ EvalStep => errors' = arrived /\ e' = <<>>
          /\ tpc \in {"sendOk", "inOk", "sendErr"} => errors' = errors
          /\ (tpc = "sendErr" /\ tpc' # "sendErr" /\ Len(errors) > 0)
                 => /\ tpc' = "inErr"
                    /\ calls' = Append(calls, "Err")
                    /\ \A i \in DOMAIN calls : calls[i] # "Err"]_vars

\* Two errors arrived between two ticks and are being given to the consumer
\* in one batch, in the order they arrived.
C6_Witness == tpc = "inErr" /\ errors = <<1, 2>> /\ e = <<>>

\* ---------------------------------------------------------------- C7
\* C7 as stated, in the form a finite run refutes: every error the backend
\* has reported is delivered in the end, so none can be undelivered once the
\* ticker thread, the only caller of the consumer, has ended.
C7_Original ==
    [][(tpc = "check" /\ tpc' = "done") => \A i \in 1..nextErr : delivered[i] >= 1]_vars

\* C7 amended: an error the callback has recorded is never lost from the
\* queue, and it is delivered to the consumer in an error batch unless the
\* stop flag is set first (errors still queued when the ticker thread leaves
\* its loop are discarded with it); delivering an error batch does not end
\* the loop, which goes on to its next sleep, and paths that get raw events
\* are still emitted, unless the stop flag is set.
C7_ErrorsDeliveredWhileRunning ==
    /\ [](\A i \in 1..nextErr :
             \/ i \in SeqToSet(e)
             \/ i \in SeqToSet(errors) /\ tpc \in {"sendOk", "inOk", "sendErr", "inErr"}
             \/ delivered[i] = 1)
    /\ \A i \in ErrIds : (i \in SeqToSet(e)) ~> (delivered[i] = 1 \/ stop)
    /\ (tpc = "inErr") ~> (tpc = "sleep" \/ stop)
    /\ \A p \in Paths :
          (tpc = "inErr" /\ p \in DOMAIN d)
              ~> ((tpc = "inOk" /\ Occurrences(send_data, p) = 1) \/ stop)

\* An error batch has been delivered, the loop is in a later iteration and
\* is giving the consumer an event batch.
C7_Witness == tpc = "inOk" /\ delivered[1] = 1 /\ ~stop

\* ---------------------------------------------------------------- C8
\* The watcher callback runs with a raw event that names path p.
EventOn(p) ==
    /\ p \in named'
    /\ \E paths \in PathLists :
          /\ SeqToSet(paths) = named'
          /\ \E off \in Readings(Len(paths)) : EventWith(paths, off)

\* Where path p is first and last named in e.paths.
FirstAt(paths, p) == CHOOSE i \in DOMAIN paths :
                        paths[i] = p /\ \A j \in 1..(i - 1) : paths[j] # p
LastAt(paths, p) == CHOOSE i \in DOMAIN paths :
                       paths[i] = p /\ \A j \in (i + 1)..Len(paths) : paths[j] # p

\* The consumer is being given Any{p}.
AnyDelivered(p) == tpc = "inOk" /\ Holds(send_data, p, KindAny)

\* C8 as stated, in the form a finite run refutes: every path of a raw event
\* that gets no further event is given its Any in the end, so no entry can
\* be left in the cache when the ticker thread, the only caller of the
\* consumer, leaves its loop.
C8_Original == [][(tpc = "check" /\ tpc' = "done") => DOMAIN d = {}]_vars

\* C8 amended: one raw event naming k distinct paths leaves k entries, one
\* per path (a new one made at the clock reading of the path's first naming,
\* or the old one with its insert as it was; the update is the reading of
\* the path's last naming), and no other entry changes; each entry is judged on its
\* own timestamps, so a path that has been quiet for the timeout gets its
\* Any whatever the other paths do, once, and leaves the cache; and a path
\* in the cache that gets no further raw event is given its Any in the end,
\* unless the stop flag is set first.
C8_IndependentPaths ==
    /\ [](\A paths \in PathLists : \A off \in Readings(Len(paths)) :
             LET n == LastReading(off)
                 r == Aged(add_event(d, paths, off), n)
             IN /\ DOMAIN r = DOMAIN d \cup SeqToSet(paths)
                /\ Cardinality(DOMAIN r \ DOMAIN d)
                       = Cardinality(SeqToSet(paths) \ DOMAIN d)
                /\ \A p \in SeqToSet(paths) :
                      /\ r[p].update = Min(n - off[LastAt(paths, p)], timeout)
                      /\ r[p].insert =
                             IF p \in DOMAIN d
                             THEN Min(d[p].insert + n, timeout)
                             ELSE Min(n - off[FirstAt(paths, p)], timeout)
                /\ \A q \in DOMAIN d \ SeqToSet(paths) :
                      /\ r[q].insert = Min(d[q].insert + n, timeout)
                      /\ r[q].update = Min(d[q].update + n, timeout))
    /\ [][/\ (\E p \in DOMAIN d' : p \notin DOMAIN d)
                => /\ tpc' = tpc
                   /\ \E paths \in PathLists : \E off \in Readings(Len(paths)) :
                         EventWith(paths, off)
          /\ EvalStep =>
                \A p \in DOMAIN d :
                    /\ Occurrences(send_data', p) <= 1
                    /\ d[p].update >= timeout
                       => Holds(send_data', p, KindAny) /\ p \notin DOMAIN d'
                    /\ Holds(send_data', p, KindAny) => p \notin DOMAIN d']_vars
    /\ \A p \in Paths :
          \/ []<><<EventOn(p)>>_vars
          \/ (p \in DOMAIN d) ~> (AnyDelivered(p) \/ stop)

\* One raw event named both paths, neither got another event, and the
\* consumer is being given the Any of both in one batch.
C8_Witness ==
    /\ tpc = "inOk"
    /\ Holds(send_data, 1, KindAny)
    /\ Holds(send_data, 2, KindAny)
    /\ DOMAIN d = {}
    /\ ~stop

\* --------------------------------------------------------------- C11
\* C11: stop(), stop_nonblocking() and the drop of the Debouncer each set
\* the stop flag (the drop without waiting for anything); the flag is never
\* cleared; once it is set no stop check lets a further round begin, so the
\* only round still run is the one whose check came before the flag was set;
\* and the ticker thread leaves its loop in the end, the consumer's
\* handle_event returning.
C11_CooperativeStop ==
    /\ [](handle \in {"joining", "stopped", "stopped_nonblocking", "dropped"} => stop)
    /\ [][stop => stop']_vars
    /\ [][stop => ~(tpc = "check" /\ tpc' = "sleep")]_vars
    /\ stop ~> (tpc = "done")

\* The Debouncer was dropped, the round under way made a consumer call after
\* that, and the thread has left its loop.
C11_Witness == handle = "dropped" /\ stop /\ late >= 1 /\ tpc = "done"

\* --------------------------------------------------------------- C12
\* C12: one call of debounced_events(), the map draining in any order and
\* the clock read at any instants, classifies each entry present once: if
\* update.elapsed() >= timeout the list gets Any and the entry is removed;
\* else if insert.elapsed() >= timeout the list gets AnyContinuous and the
\* entry is kept, its two instants as they were; otherwise the list gets
\* nothing for the path and the entry is kept as it was.  No path is in the
\* list twice, none that was not in the map, and the map afterwards holds
\* exactly the entries not emitted as Any.
C12_ClassifyEachOnce ==
    [][EvalStep =>
          \A ord \in Perms(DOMAIN d) : \A off \in Readings(2 * Len(ord)) :
          EvalWith(ord, off) =>
              /\ \A i \in DOMAIN ord :
                    LET p == ord[i]
                        kept == p \in DOMAIN d'
                                  /\ d'[p] = AgedData(d[p], LastReading(off))
                    IN /\ Occurrences(send_data', p) <= 1
                       /\ IF d[p].update + off[2 * i - 1] >= timeout
                          THEN Holds(send_data', p, KindAny) /\ p \notin DOMAIN d'
                          ELSE IF d[p].insert + off[2 * i] >= timeout
                          THEN Holds(send_data', p, KindAnyContinuous) /\ kept
                          ELSE Occurrences(send_data', p) = 0 /\ kept
              /\ \A j \in DOMAIN send_data' : send_data'[j].path \in DOMAIN d
              /\ DOMAIN d' = {p \in DOMAIN d : ~Holds(send_data', p, KindAny)}]_vars

\* One call has emitted Any for path 1 and removed it, and emitted
\* AnyContinuous for path 2 and kept it.
C12_Witness ==
    /\ tpc = "sendOk"
    /\ Holds(send_data, 1, KindAny)
    /\ Holds(send_data, 2, KindAnyContinuous)
    /\ DOMAIN d = {2}

\* --------------------------------------------------------------- C13
\* C13: add_event(e) takes the paths of e.paths one after the other.  A
\* path that has an entry when its turn comes keeps its insert and has its
\* update set to the clock reading made for it; a path that has none gets
\* an entry with insert = update = that reading; in both cases the entries
\* of all other paths are as before.  The call leaves the error queue and
\* the timeout as they were: a step in which an entry appears or has its
\* update made younger is a call of add_event and changes neither.
\* add_error(err) puts err at the end of the error queue and changes nothing
\* else.
C13_StoreFrame ==
    /\ [](\A paths \in PathLists : \A off \in Readings(Len(paths)) :
             \A i \in DOMAIN paths :
                 LET before == add_event(d, SubSeq(paths, 1, i - 1),
                                         SubSeq(off, 1, i - 1))
                     after == add_event(d, SubSeq(paths, 1, i),
                                        SubSeq(off, 1, i))
                     p == paths[i]
                 IN /\ DOMAIN after = DOMAIN before \cup {p}
                    /\ after[p].update = new_any(off[i]).update
                    /\ after[p].insert =
                           IF p \in DOMAIN before
                           THEN before[p].insert
                           ELSE after[p].update
                    /\ \A q \in DOMAIN before \ {p} : after[q] = before[q])
    /\ [][/\ (\E p \in DOMAIN d' : p \notin DOMAIN d \/ d'[p].update < d[p].update)
                => /\ e' = e
                   /\ timeout' = timeout
                   /\ \E paths \in PathLists : \E off \in Readings(Len(paths)) :
                         d' = Aged(add_event(d, paths, off), LastReading(off))
          /\ (tpc' = tpc /\ e' # e) =>
             /\ Len(e') = Len(e) + 1
             /\ SubSeq(e', 1, Len(e)) = e
             /\ e'[Len(e')] = nextErr'
             /\ d' = d
             /\ timeout' = timeout]_vars

\* Path 1 got a second raw event after its first (its update is younger than
\* its insert), and two errors are queued in the order they were reported.
C13_Witness ==
    /\ 1 \in DOMAIN d
    /\ d[1].update < d[1].insert
    /\ e = <<1, 2>>

\* --------------------------------------------------------------- C14
\* C14: the ticker holds the mutex exactly from its lock() to the end of the
\* block in which debounced_events() and errors() both run, so it is free
\* before either dispatch and all through the consumer's handle_event; while
\* the ticker holds it no watcher callback changes the cache or the error
\* queue, and while the consumer runs a live watcher's callback can run.
C14_LockReleasedBeforeDispatch ==
    /\ [](lock = "ticker" <=> tpc = "locked")
    /\ [](tpc \in {"sendOk", "inOk", "sendErr", "inErr"} => lock = "free")
    /\ []((tpc \in {"inOk", "inErr"} /\ watcher = "alive")
             => ENABLED WatcherEvent /\ (nextErr < MaxErrs => ENABLED WatcherError))
    /\ [][/\ EvalStep => lock = "ticker" /\ lock' = "free" /\ errors' = e /\ e' = <<>>
          /\ (lock = "ticker" /\ ~EvalStep)
                 => /\ lock' = "ticker"
                    /\ e' = e
                    /\ nev' = nev
                    /\ \A p \in DOMAIN d : d'[p].update >= d[p].update
                    /\ DOMAIN d' = DOMAIN d]_vars

\* The consumer is being given Any for path 1, whose entry the tick removed,
\* and the watcher callback has meanwhile recorded a new raw event for it.
C14_Witness ==
    /\ tpc = "inOk"
    /\ Holds(send_data, 1, KindAny)
    /\ 1 \in DOMAIN d
    /\ lock = "free"

\* --------------------------------------------------------------- C15
\* A is an initial part of B.
IsPrefix(A, B) == Len(A) <= Len(B) /\ SubSeq(B, 1, Len(A)) = A

\* C15: when the ticker starts an iteration, sleeps or takes the mutex, the
\* batches of the tick before have been handed over: a batch that is not
\* empty goes through its handle_event call before the loop moves on.  What
\* the watcher callback records once a tick has released the mutex does not
\* touch that tick's batches; it stays in the cache or the error queue, in
\* order, and only a later tick's evaluation takes it out.
C15_TicksSequential ==
    /\ [](tpc \in {"check", "sleep", "locked", "done"}
             => send_data = <<>> /\ errors = <<>>)
    /\ [][/\ (tpc = "sendOk" /\ tpc' # tpc)
                 => tpc' = (IF send_data # <<>> THEN "inOk" ELSE "sendErr")
          /\ (tpc = "sendErr" /\ tpc' # tpc)
                 => tpc' = (IF errors # <<>> THEN "inErr" ELSE "check")
          /\ (tpc \in {"sendOk", "inOk", "sendErr", "inErr"} /\ tpc' = tpc)
                 => send_data' = send_data /\ errors' = errors
          /\ ~EvalStep
                 => /\ DOMAIN d \subseteq DOMAIN d'
                    /\ \A p \in DOMAIN d : nev'[p] >= nev[p]
                    /\ IsPrefix(e, e')]_vars

\* The consumer is being given Any for path 1; since the tick released the
\* mutex a new raw event for path 1 and an error have been recorded, and
\* neither is in the tick's batches.
C15_Witness ==
    /\ tpc = "inOk"
    /\ Holds(send_data, 1, KindAny)
    /\ 1 \in DOMAIN d
    /\ errors = <<>>
    /\ e = <<1>>

\* --------------------------------------------------------------- C16
\* C16: a batch holds Any{p} only if, when the tick read the clock for p,
\* the last raw event recorded for p was at least the timeout old; the tick
\* then removes p, and a path that is not in the cache is emitted by no
\* tick.  An entry comes into the cache only by a raw event for its path, as
\* a fresh entry holding that one event, its insert and update both taken
\* during that callback, so a raw event for p lies between any two Any{p}.
C16_AnyOnlyWhenQuiet ==
    /\ [](\A p \in Paths : p \in DOMAIN d <=> nev[p] >= 1)
    /\ [][/\ EvalStep =>
                /\ \A ord \in Perms(DOMAIN d) : \A off \in Readings(2 * Len(ord)) :
                      EvalWith(ord, off) =>
                          \A i \in DOMAIN ord :
                              Holds(send_data', ord[i], KindAny)
                                  => /\ d[ord[i]].update + off[2 * i - 1] >= timeout
                                     /\ ord[i] \notin DOMAIN d'
                                     /\ nev'[ord[i]] = 0
                /\ \A p \in Paths \ DOMAIN d : Occurrences(send_data', p) = 0
          /\ \A p \in Paths :
                (p \notin DOMAIN d /\ p \in DOMAIN d')
                    => /\ tpc' = tpc /\ send_data' = send_data
                       /\ nev'[p] = 1
                       /\ d'[p].update <= d'[p].insert
                       /\ d'[p].insert <= MaxSkew]_vars

\* With a timeout that is not zero, the consumer is being given Any for
\* path 1, which has left the cache and has had no raw event since.
C16_Witness ==
    /\ timeout > 0
    /\ tpc = "inOk"
    /\ Holds(send_data, 1, KindAny)
    /\ nev[1] = 0
    /\ 1 \notin DOMAIN d

\* --------------------------------------------------------------- C17
\* C17: a tick that emits AnyContinuous{p} keeps p's entry, whose insert is
\* by then at least the timeout old; as long as the entry stays in the cache
\* nothing makes its insert younger; and a tick that finds an entry with an
\* insert that old emits one event for it, AnyContinuous if it keeps the
\* entry and Any if it removes it, and never keeps it in silence.
C17_ContinuousHeartbeat ==
    [][/\ EvalStep =>
             \A p \in DOMAIN d :
                 /\ Holds(send_data', p, KindAnyContinuous)
                        => p \in DOMAIN d' /\ d'[p].insert >= timeout
                 /\ d[p].insert >= timeout
                        => /\ Occurrences(send_data', p) = 1
                           /\ Holds(send_data', p,
                                    IF p \in DOMAIN d' THEN KindAnyContinuous ELSE KindAny)
       /\ \A p \in DOMAIN d \cap DOMAIN d' :
             d[p].insert >= timeout => d'[p].insert >= timeout]_vars

\* The consumer is being given AnyContinuous for path 2, and a raw event
\* recorded for path 2 since the tick has moved its update and left its
\* insert as old as it was.
C17_Witness ==
    /\ timeout = MaxTimeout
    /\ tpc = "inOk"
    /\ Holds(send_data, 2, KindAnyContinuous)
    /\ 2 \in DOMAIN d
    /\ d[2].insert >= timeout
    /\ d[2].update = 0

\* --------------------------------------------------------------- C18
\* C18 as stated, at the moment a tick has evaluated the cache: a path still
\* in the cache has had a raw event since its last emission of either kind,
\* so it is not a path this very tick has emitted.
C18_Original ==
    [][EvalStep => \A p \in DOMAIN d' : Occurrences(send_data', p) = 0]_vars

\* C18 amended: every path in the cache has had at least one raw event
\* since its last Any (an AnyContinuous keeps the entry, with no new raw
\* event needed); an entry leaves the cache only by a tick that emits Any
\* for it, its last raw event at least the timeout old at the tick's clock
\* read, so the cache becomes empty only by ticks that emit Any for all the
\* paths left.
C18_EntriesHoldEvents ==
    /\ [](\A p \in DOMAIN d : nev[p] >= 1)
    /\ [][/\ \A p \in DOMAIN d \ DOMAIN d' :
                /\ EvalStep
                /\ Holds(send_data', p, KindAny)
                /\ d[p].update + MaxSkew >= timeout
          /\ (DOMAIN d # {} /\ DOMAIN d' = {})
                => Len(send_data') = Cardinality(DOMAIN d)]_vars

\* A tick has emitted AnyContinuous for path 1 and kept its entry, whose
\* last raw event is older than the tick, and has emitted Any for path 2 and
\* removed it.
C18_Witness ==
    /\ tpc = "sendOk"
    /\ Holds(send_data, 1, KindAnyContinuous)
    /\ 1 \in DOMAIN d
    /\ d[1].update >= 1
    /\ Holds(send_data, 2, KindAny)
    /\ 2 \notin DOMAIN d

\* --------------------------------------------------------------- C19
\* C19 as stated: a tick never emits AnyContinuous for an entry whose insert
\* and update are the same instant, whatever the two clock reads made for
\* it; such an entry is emitted as Any or kept in silence.
C19_Original ==
    [][EvalStep =>
          \A p \in DOMAIN d :
              d[p].insert = d[p].update
                  => /\ ~Holds(send_data', p, KindAnyContinuous)
                     /\ \/ Holds(send_data', p, KindAny) /\ p \notin DOMAIN d'
                        \/ Occurrences(send_data', p) = 0 /\ p \in DOMAIN d']_vars

\* --------------------------------------------------------------- C20
\* C20 as stated: once new_debouncer_opt has returned an error, whichever
\* it is, the ticker thread does not exist or comes to its end.
C20_Original ==
    (ctor \in {"err_config", "err_spawn", "err_watcher"}) ~> (tpc \in {"none", "done"})

====
